---- MODULE Spec2Model ----
(***************************************************************************)
(* TripTailor LangGraph agent (src/backend/itinerary.js): the POST         *)
(* /api/chat handler, the three stages of the compiled workflow            *)
(* (analyzeUserRequest, gatherTravelData, createItinerary), the five       *)
(* SerpAPI tool adapters and the two process-wide maps.                    *)
(***************************************************************************)
EXTENDS Integers, Sequences, FiniteSets, TLC

(***************************************************************************)
(* extractions: the calls of extractBasicTravelInfo made so far, each with *)
(* its message and its result.                                             *)
(* turns: the POST /api/chat requests the server handles side by side,     *)
(* each with its position, its req.body, its local `conversation`, its     *)
(* response, and the requests for the same id that were awaiting the agent *)
(* when it started.                                                        *)
(***************************************************************************)
VARIABLES extractions, turns

(***************************************************************************)
(* JavaScript / JSON values.  Every value is a tuple whose first element   *)
(* is its type tag, so that values of different types can be compared.     *)
(* A plain object is a function from its own keys to values; reading a     *)
(* key that is not there gives undefined.                                  *)
(***************************************************************************)
JUndefined == <<"undefined">>
JNull == <<"null">>
JStr(s) == <<"string", s>>
JNum(n) == <<"number", n>>
JArr(s) == <<"array", s>>
JObj(f) == <<"object", f>>
\* a JavaScript string kept as the sequence of its whitespace-separated tokens
JText(tokens) == <<"text", tokens>>

EmptyObject == <<>>

TypeOf(v) == v[1]

\* ToBoolean(v), as used by `!message`, `a && b`, `a || b`
Truthy(v) ==
  CASE TypeOf(v) = "undefined" -> FALSE
    [] TypeOf(v) = "null" -> FALSE
    [] TypeOf(v) = "string" -> v[2] # ""
    [] TypeOf(v) = "text" -> v[2] # <<>>
    [] TypeOf(v) = "number" -> v[2] # 0
    [] OTHER -> TRUE

\* obj.key
Get(obj, k) == IF k \in DOMAIN obj THEN obj[k] ELSE JUndefined

\* the own enumerable properties `...v` copies: those of an object; a number,
\* null, undefined or an empty array has none
OwnProperties(v) == IF TypeOf(v) = "object" THEN v[2] ELSE EmptyObject

\* { ...x, ...y } for plain objects x and y
Spread(x, y) ==
  [k \in (DOMAIN x) \cup (DOMAIN y) |-> IF k \in DOMAIN y THEN y[k] ELSE x[k]]

NotSpecified == JStr("not specified")

TravelDetailKeys ==
  {"fromLocation", "toLocation", "departureDate", "returnDate", "travelers",
   "budget", "preferences", "duration", "specialRequirements"}

(***************************************************************************)
(* User messages.  A message is the sequence of its tokens; a comma is a   *)
(* token of its own (in the text it is glued to the word before it).  The  *)
(* sample messages hold no "." and no "!".                                 *)
(***************************************************************************)
HappyPathMessage ==
  <<"I", "want", "to", "go", "from", "New", "York", "to", "Tokyo", "next",
    "month", "for", "5", "days", "with", "a", "$4000", "budget">>

DestinationOnlyMessage ==
  <<"Family", "trip", "to", "Orlando", "for", "Disney", "World", ",",
    "traveling", "with", "2", "kids", "in", "August">>

Messages == {HappyPathMessage, DestinationOnlyMessage}

\* lexical tables over the tokens of the sample messages
Lower(tok) ==
  CASE tok = "Family" -> "family"
    [] tok = "A" -> "a"
    [] tok = "I" -> "i"
    [] tok = "From" -> "from"
    [] tok = "To" -> "to"
    [] tok = "Trip" -> "trip"
    [] OTHER -> tok

\* [^,\s]+ : a token with no comma in it
Plain(tok) == tok # ","

\* the digits a token ends with (\d+ followed by \s+), "" when it ends with none
TrailingDigits(tok) ==
  CASE tok = "5" -> "5"
    [] tok = "2" -> "2"
    [] tok = "4" -> "4"
    [] tok = "0" -> "0"
    [] tok = "$4000" -> "4000"
    [] OTHER -> ""

\* \$(\d+(?:,\d+)*) inside a token: the captured amount, "" when no match
DollarAmount(tok) == IF tok = "$4000" THEN "4000" ELSE ""

\* parseInt of a string of digits
ParseInt(digits) ==
  CASE digits = "0" -> 0
    [] digits = "2" -> 2
    [] digits = "4" -> 4
    [] digits = "5" -> 5
    [] digits = "4000" -> 4000
    [] digits = "2500" -> 2500
    [] digits = "1800" -> 1800

Min(S) == CHOOSE x \in S : \A y \in S : x <= y
Max(S) == CHOOSE x \in S : \A y \in S : x >= y

RECURSIVE Join(_)
\* the text of a run of tokens, single spaces between them (after trim())
Join(tokens) ==
  IF tokens = <<>> THEN ""
  ELSE IF Len(tokens) = 1 THEN tokens[1]
  ELSE tokens[1] \o " " \o Join(Tail(tokens))

\* the longest run of comma-free tokens that starts at position s
PlainRun(msg, s) ==
  LET ends == {e \in s..Len(msg) : \A k \in s..e : Plain(msg[k])}
  IN SubSeq(msg, s, Max(ends))

\* /from\s+([^,\s]+(?:\s+[^,\s]+)*)\s+to\s+([^,\s]+(?:\s+[^,\s]+)*)/i
\* the positions of "to" that can close group 1 for the "from" at position i
FromToSplits(msg, i) ==
  {j \in (i + 2)..(Len(msg) - 1) :
     /\ Lower(msg[j]) = "to"
     /\ \A k \in (i + 1)..(j - 1) : Plain(msg[k])
     /\ Plain(msg[j + 1])}

FromToStarts(msg) ==
  {i \in 1..Len(msg) : Lower(msg[i]) = "from" /\ FromToSplits(msg, i) # {}}

\* the two groups of the leftmost match; group 1 is greedy, so it ends at the
\* last "to" that still leaves a match
FromToMatch(msg) ==
  LET i == Min(FromToStarts(msg))
      j == Max(FromToSplits(msg, i))
  IN <<SubSeq(msg, i + 1, j - 1), PlainRun(msg, j + 1)>>

\* /(?:going to|visit|traveling to|trip to)\s+([^,\.\!]+)/i
\* the position at which group 1 starts, for a phrase that starts at p
DestinationStart(msg, p) ==
  IF Lower(msg[p]) = "visit" THEN p + 1
  ELSE IF /\ Lower(msg[p]) \in {"going", "traveling", "trip"}
          /\ p + 1 <= Len(msg)
          /\ Lower(msg[p + 1]) = "to"
       THEN p + 2
       ELSE 0

DestinationStarts(msg) ==
  {p \in 1..Len(msg) :
     LET s == DestinationStart(msg, p)
     IN s # 0 /\ s <= Len(msg) /\ Plain(msg[s])}

DestinationMatch(msg) ==
  PlainRun(msg, DestinationStart(msg, Min(DestinationStarts(msg))))

\* /(\d+)\s+(?:people|travelers|adults|persons)/i
TravelersStarts(msg) ==
  {i \in 1..(Len(msg) - 1) :
     /\ TrailingDigits(msg[i]) # ""
     /\ Lower(msg[i + 1]) \in {"people", "travelers", "adults", "persons"}}

\* /\$(\d+(?:,\d+)*)/
BudgetStarts(msg) == {i \in 1..Len(msg) : DollarAmount(msg[i]) # ""}

\* /(\d+)\s+days?/i
DurationStarts(msg) ==
  {i \in 1..(Len(msg) - 1) :
     /\ TrailingDigits(msg[i]) # ""
     /\ Lower(msg[i + 1]) \in {"day", "days"}}

\* lowerMessage.includes(word)
Includes(msg, word) == \E i \in 1..Len(msg) : Lower(msg[i]) = word

\* mutant: basicInfo is one object shared by all calls
basicInfoShared ==
  IF extractions = <<>>
  THEN [fromLocation |-> NotSpecified, toLocation |-> NotSpecified,
        departureDate |-> NotSpecified, returnDate |-> NotSpecified,
        travelers |-> JNum(1), budget |-> NotSpecified,
        preferences |-> JArr(<<>>), duration |-> NotSpecified,
        specialRequirements |-> NotSpecified]
  ELSE extractions[Len(extractions)].result

\* const basicInfo = {...}: a new object in every call
basicInfo ==
  [fromLocation |-> NotSpecified,
   toLocation |-> NotSpecified,
   departureDate |-> NotSpecified,
   returnDate |-> NotSpecified,
   travelers |-> JNum(1),
   budget |-> NotSpecified,
   preferences |-> JArr(<<>>),
   duration |-> NotSpecified,
   specialRequirements |-> NotSpecified]

extractBasicTravelInfo(msg) ==
  LET fromTo == FromToStarts(msg) # {}
      toLocation1 ==
        IF fromTo THEN JStr(Join(FromToMatch(msg)[2])) ELSE basicInfo.toLocation
  IN
  [fromLocation |->
     IF fromTo THEN JStr(Join(FromToMatch(msg)[1])) ELSE basicInfo.fromLocation,
   toLocation |->
     IF DestinationStarts(msg) # {} /\ toLocation1 = NotSpecified
     THEN JStr(Join(DestinationMatch(msg)))
     ELSE toLocation1,
   departureDate |-> basicInfo.departureDate,
   returnDate |-> basicInfo.returnDate,
   travelers |->
     IF TravelersStarts(msg) # {}
     THEN JNum(ParseInt(TrailingDigits(msg[Min(TravelersStarts(msg))])))
     ELSE basicInfo.travelers,
   budget |->
     IF BudgetStarts(msg) # {}
     THEN JStr(DollarAmount(msg[Min(BudgetStarts(msg))]))
     ELSE basicInfo.budget,
   preferences |-> basicInfo.preferences,
   duration |->
     IF DurationStarts(msg) # {}
     THEN JStr(TrailingDigits(msg[Min(DurationStarts(msg))]) \o " days")
     ELSE basicInfo.duration,
   specialRequirements |->
     IF Includes(msg, "romantic") THEN JStr("romantic trip")
     ELSE IF Includes(msg, "family") \/ Includes(msg, "kids") THEN JStr("family trip")
     ELSE IF Includes(msg, "business") THEN JStr("business trip")
     ELSE basicInfo.specialRequirements]

(***************************************************************************)
(* Texts that are parsed as JSON.  A text is what JSON value it spells     *)
(* (if any) and whether other characters surround that value.              *)
(***************************************************************************)
NoJson == <<"none">>
SomeJson(v) == <<"some", v>>

\* JSON.stringify(obj) of a plain object: keys holding undefined are left out
JSONStringify(obj) ==
  [prose |-> FALSE,
   json |-> SomeJson(JObj([k \in {d \in DOMAIN obj : obj[d] # JUndefined} |-> obj[k]]))]

\* JSON.parse(text): a value or a SyntaxError
JSONParse(text) ==
  IF text.prose \/ text.json = NoJson
  THEN [raised |-> TRUE, error |-> "SyntaxError"]
  ELSE [raised |-> FALSE, value |-> text.json[2]]

\* `${v}` in a template literal
ToStr(v) ==
  CASE TypeOf(v) = "string" -> v[2]
    [] TypeOf(v) = "text" -> Join(v[2])
    [] TypeOf(v) = "number" -> ToString(v[2])
    [] TypeOf(v) = "undefined" -> "undefined"
    [] TypeOf(v) = "null" -> "null"
    [] TypeOf(v) = "array" -> Join(v[2])
    [] OTHER -> "[object Object]"

\* a || b
Or(a, b) == IF Truthy(a) THEN a ELSE b

(***************************************************************************)
(* The five tool adapters.  `key` is whether SERPAPI_KEY is set; `http`    *)
(* is what the axios.get call and the provider's body do.                  *)
(***************************************************************************)
HttpOutcomes == {"request_error", "timeout", "malformed", "incomplete", "success"}

SERP == JStr("SerpAPI Google Search")
FALLBACK == JStr("Fallback recommendations")

\* axios.get rejects: a network error, a non-2xx status, or the timeout
AxiosRejects(http) == http \in {"request_error", "timeout"}

\* response.data.organic_results is there but is no array: .slice/.filter throw
NotAnArray(http) == http = "malformed"

\* the results lack title, snippet or link: the .filter callbacks of hotels,
\* restaurants, flights and weather throw on them, the .map of places does not
FilterThrows(http) == http = "incomplete"

\* the try block of search_places throws
PlacesTryThrows(key, http) == ~key \/ AxiosRejects(http) \/ NotAnArray(http)

\* mutant: the adapter forgets to look at the key
FilteringTryThrowsIgnoringKey(key, http) ==
  AxiosRejects(http) \/ NotAnArray(http) \/ FilterThrows(http)

\* the try block of the four adapters that filter the results throws
FilteringTryThrows(key, http) ==
  ~key \/ AxiosRejects(http) \/ NotAnArray(http) \/ FilterThrows(http)

searchPlacesTool(args, key, http) ==
  IF PlacesTryThrows(key, http)
  THEN JSONStringify(
         [location |-> args.location,
          searchType |-> JStr("Tourist Attractions & Places"),
          totalFound |-> JNum(2),
          dataSource |-> FALLBACK,
          note |-> JStr("API temporarily unavailable - showing popular recommendations")])
  ELSE JSONStringify(
         [location |-> args.location,
          searchType |-> JStr("Tourist Attractions & Places"),
          totalFound |-> JNum(1),
          dataSource |-> SERP])

searchHotelsTool(args, key, http) ==
  LET adults == IF args.adults = JUndefined THEN JNum(2) ELSE args.adults
  IN
  IF FilteringTryThrows(key, http)
  THEN JSONStringify(
         [location |-> args.location,
          checkIn |-> Or(args.checkIn, JStr("Flexible dates")),
          checkOut |-> Or(args.checkOut, JStr("Flexible dates")),
          adults |-> adults,
          dataSource |-> FALLBACK,
          note |-> JStr("API temporarily unavailable - showing general recommendations")])
  ELSE JSONStringify(
         [location |-> args.location,
          checkIn |-> Or(args.checkIn, JStr("Flexible dates")),
          checkOut |-> Or(args.checkOut, JStr("Flexible dates")),
          adults |-> adults,
          dataSource |-> SERP])

searchRestaurantsTool(args, key, http) ==
  IF FilteringTryThrows(key, http)
  THEN JSONStringify(
         [location |-> args.location,
          cuisine |-> Or(args.cuisine, JStr("All cuisines")),
          priceRange |-> Or(args.priceRange, JStr("All price ranges")),
          dataSource |-> FALLBACK,
          note |-> JStr("API temporarily unavailable - showing general recommendations")])
  ELSE JSONStringify(
         [location |-> args.location,
          cuisine |-> Or(args.cuisine, JStr("All cuisines")),
          priceRange |-> Or(args.priceRange, JStr("All price ranges")),
          dataSource |-> SERP])

searchFlightsTool(args, key, http) ==
  LET adults == IF args.adults = JUndefined THEN JNum(1) ELSE args.adults
      route == JStr(ToStr(args.fromLocation) \o " -> " \o ToStr(args.toLocation))
  IN
  IF FilteringTryThrows(key, http)
  THEN JSONStringify(
         [route |-> route,
          departureDate |-> args.departureDate,
          returnDate |-> Or(args.returnDate, JStr("One way")),
          passengers |-> adults,
          dataSource |-> FALLBACK,
          note |-> JStr("API temporarily unavailable - use major booking sites directly")])
  ELSE JSONStringify(
         [route |-> route,
          departureDate |-> args.departureDate,
          returnDate |-> Or(args.returnDate, JStr("One way")),
          passengers |-> adults,
          dataSource |-> SERP])

searchWeatherTool(args, key, http) ==
  IF FilteringTryThrows(key, http)
  THEN JSONStringify(
         [location |-> args.location,
          date |-> Or(args.date, JStr("Current")),
          temperature |-> JStr("Check weather.com"),
          dataSource |-> FALLBACK,
          note |-> JStr("API temporarily unavailable - check weather sites directly")])
  ELSE JSONStringify(
         [location |-> args.location,
          date |-> Or(args.date, JStr("Current")),
          temperature |-> JStr("Check weather services"),
          dataSource |-> SERP])

Tools ==
  {"search_weather", "search_flights", "search_hotels", "search_places",
   "search_restaurants"}

\* tool.func(args)
ToolFunc(tool, args, key, http) ==
  CASE tool = "search_weather" -> searchWeatherTool(args, key, http)
    [] tool = "search_flights" -> searchFlightsTool(args, key, http)
    [] tool = "search_hotels" -> searchHotelsTool(args, key, http)
    [] tool = "search_places" -> searchPlacesTool(args, key, http)
    [] tool = "search_restaurants" -> searchRestaurantsTool(args, key, http)

(***************************************************************************)
(* AgentState: the channels of the graph and their reducers.               *)
(***************************************************************************)
AgentStateDefault ==
  [messages |-> <<>>,
   travelDetails |-> EmptyObject,
   toolResults |-> EmptyObject,
   currentStep |-> "analyzing",
   finalResponse |-> JText(<<>>)]

\* mutant: a channel the update does not name falls back to its default
ApplyUpdateResetting(state, update) ==
  [messages |->
     IF "messages" \in DOMAIN update
     THEN state.messages \o update.messages ELSE <<>>,
   travelDetails |->
     IF "travelDetails" \in DOMAIN update
     THEN Spread(state.travelDetails, OwnProperties(update.travelDetails))
     ELSE EmptyObject,
   toolResults |->
     IF "toolResults" \in DOMAIN update
     THEN Spread(state.toolResults, OwnProperties(update.toolResults))
     ELSE EmptyObject,
   currentStep |->
     IF "currentStep" \in DOMAIN update THEN update.currentStep ELSE state.currentStep,
   finalResponse |->
     IF "finalResponse" \in DOMAIN update
     THEN update.finalResponse ELSE state.finalResponse]

\* the state after a node returned `update` (an object with some of the channels);
\* travelDetails and toolResults hold the plain object the reducer built
ApplyUpdate(state, update) ==
  [messages |->
     IF "messages" \in DOMAIN update
     THEN state.messages \o update.messages ELSE state.messages,
   travelDetails |->
     IF "travelDetails" \in DOMAIN update
     THEN Spread(state.travelDetails, OwnProperties(update.travelDetails))
     ELSE state.travelDetails,
   toolResults |->
     IF "toolResults" \in DOMAIN update
     THEN Spread(state.toolResults, OwnProperties(update.toolResults))
     ELSE state.toolResults,
   currentStep |->
     IF "currentStep" \in DOMAIN update THEN update.currentStep ELSE state.currentStep,
   finalResponse |->
     IF "finalResponse" \in DOMAIN update
     THEN update.finalResponse ELSE state.finalResponse]

(***************************************************************************)
(* analyzeUserRequest                                                      *)
(***************************************************************************)
\* what llm.invoke does: it rejects, or it resolves with a content
LLMRejects == [failed |-> TRUE, content |-> [prose |-> FALSE, json |-> NoJson]]
LLMContent(text) == [failed |-> FALSE, content |-> text]

\* the slice from the first "{" to the last "}", when the content has both
CleanContent(text) ==
  IF text.json # NoJson /\ TypeOf(text.json[2]) = "object"
  THEN [prose |-> FALSE, json |-> text.json]
  ELSE text

\* the catch block: `result` is declared by const inside the try block, so
\* reading it in line 660 throws a ReferenceError before line 662 is reached
AnalyzeCatch(lastMessage) ==
  [raised |-> TRUE, error |-> "result is not defined"]

analyzeUserRequest(state, reply) ==
  LET lastMessage == state.messages[Len(state.messages)]
      parsed == JSONParse(CleanContent(reply.content))
  IN IF ~reply.failed /\ ~parsed.raised
     THEN [raised |-> FALSE,
           update |-> [travelDetails |-> parsed.value,
                       currentStep |-> "gathering_data"]]
     ELSE AnalyzeCatch(lastMessage)

(***************************************************************************)
(* gatherTravelData                                                        *)
(***************************************************************************)
\* mutant: the guard without its truthiness test
DestinationKnownUnlessSentinel(td) == Get(td, "toLocation") # NotSpecified

\* travelDetails.toLocation && travelDetails.toLocation !== "not specified"
DestinationKnown(td) ==
  Truthy(Get(td, "toLocation")) /\ Get(td, "toLocation") # NotSpecified

\* mutant: the guard without its test of departureDate
FlightsApplicableWithoutDate(td) ==
  /\ Get(td, "fromLocation") # NotSpecified
  /\ Get(td, "toLocation") # NotSpecified

FlightsApplicable(td) ==
  /\ Get(td, "fromLocation") # NotSpecified
  /\ Get(td, "toLocation") # NotSpecified
  /\ Get(td, "departureDate") # NotSpecified

\* v !== "not specified" ? v : undefined
Specified(v) == IF v # NotSpecified THEN v ELSE JUndefined

WeatherArgs(td) ==
  [location |-> Get(td, "toLocation"),
   date |-> Specified(Get(td, "departureDate"))]

FlightsArgs(td) ==
  [fromLocation |-> Get(td, "fromLocation"),
   toLocation |-> Get(td, "toLocation"),
   departureDate |-> Get(td, "departureDate"),
   returnDate |-> Specified(Get(td, "returnDate")),
   adults |-> Or(Get(td, "travelers"), JNum(1))]

HotelsArgs(td) ==
  [location |-> Get(td, "toLocation"),
   checkIn |-> Specified(Get(td, "departureDate")),
   checkOut |-> Specified(Get(td, "returnDate")),
   adults |-> Or(Get(td, "travelers"), JNum(2))]

PlacesArgs(td) ==
  [query |-> JStr("tourist attractions museums landmarks"),
   location |-> Get(td, "toLocation")]

\* parseInt(String(budget).replace(/[,$]/g, '')): a number, or NaN as -1
BudgetNumber(budget) ==
  CASE TypeOf(budget) = "number" -> budget[2]
    [] TypeOf(budget) = "string" /\ budget[2] \in {"4000", "$4000", "4,000"} -> 4000
    [] TypeOf(budget) = "string" /\ budget[2] \in {"2500", "$2500", "2,500"} -> 2500
    [] TypeOf(budget) = "string" /\ budget[2] \in {"2000", "$2000", "2,000"} -> 2000
    [] TypeOf(budget) = "string" /\ budget[2] \in {"1800", "$1800", "1,800"} -> 1800
    [] OTHER -> -1

PriceRange(td) ==
  LET budget == Get(td, "budget")
  IN IF Truthy(budget) /\ budget # NotSpecified /\ BudgetNumber(budget) # -1
     THEN IF BudgetNumber(budget) > 2000 THEN JStr("luxury") ELSE JStr("mid-range")
     ELSE JStr("")

\* travelDetails.preferences?.includes('food') throws a TypeError when
\* preferences is neither null, undefined, an array nor a string
IncludesThrows(td) ==
  TypeOf(Get(td, "preferences")) \in {"number", "object", "boolean"}

PrefersFood(td) ==
  LET p == Get(td, "preferences")
  IN CASE TypeOf(p) = "array" -> \E i \in 1..Len(p[2]) : p[2][i] = "food"
       [] TypeOf(p) = "string" -> p[2] = "food"
       [] OTHER -> FALSE

RestaurantsArgs(td) ==
  [location |-> Get(td, "toLocation"),
   cuisine |-> IF PrefersFood(td) THEN JStr("local") ELSE JStr(""),
   priceRange |-> PriceRange(td)]

\* What `await tool.func(args)` can do at its call site: the adapter runs
\* against the provider (one of HttpOutcomes), or the promise rejects, or it
\* resolves with a text that is no JSON.
AdapterFaults == {"rejects", "unparseable"}
AdapterBehaviours == HttpOutcomes \cup AdapterFaults

Invoke(tool, args, key, behaviour) ==
  CASE behaviour = "rejects" ->
         [raised |-> TRUE, text |-> [prose |-> FALSE, json |-> NoJson]]
    [] behaviour = "unparseable" ->
         [raised |-> FALSE, text |-> [prose |-> TRUE, json |-> NoJson]]
    [] OTHER ->
         [raised |-> FALSE, text |-> ToolFunc(tool, args, key, behaviour)]

\* whether the try block around one invocation ends in its catch
InvocationFails(call) == call.raised \/ JSONParse(call.text).raised

ErrorMarker(reason) == JObj([error |-> JStr(reason)])

\* mutant: a failed invocation leaves no trace in toolResults
SettleDroppingFailure(toolResults, k, reason, call) ==
  IF InvocationFails(call)
  THEN toolResults
  ELSE Spread(toolResults, k :> JSONParse(call.text).value)

\* toolResults after  try { toolResults[k] = JSON.parse(await ...) }
\*                    catch { toolResults[k] = { error: reason } }
Settle(toolResults, k, reason, call) ==
  Spread(toolResults,
         k :> (IF InvocationFails(call)
               THEN ErrorMarker(reason)
               ELSE JSONParse(call.text).value))

(***************************************************************************)
(* createItinerary                                                         *)
(***************************************************************************)
\* travelDetails.travelers > 1
MoreThanOne(v) == TypeOf(v) = "number" /\ v[2] > 1

FallbackResponse(td) ==
  JText(<<"# Travel Planning Assistant",
          "I encountered an issue creating your detailed itinerary, but I can still help you plan your trip!",
          "## Based on your request:",
          IF Get(td, "toLocation") # NotSpecified
          THEN "**Destination:** " \o ToStr(Get(td, "toLocation")) ELSE "",
          IF Get(td, "fromLocation") # NotSpecified
          THEN "**From:** " \o ToStr(Get(td, "fromLocation")) ELSE "",
          IF Get(td, "departureDate") # NotSpecified
          THEN "**Departure:** " \o ToStr(Get(td, "departureDate")) ELSE "",
          IF MoreThanOne(Get(td, "travelers"))
          THEN "**Travelers:** " \o ToStr(Get(td, "travelers")) \o " people" ELSE "",
          "## General Recommendations:",
          "Please try asking again with your specific travel details, and I'll do my best to create a detailed itinerary for you!">>)

SynthesisRejects == [failed |-> TRUE, content |-> JUndefined]
SynthesisContent(text) == [failed |-> FALSE, content |-> text]

\* mutant: the catch returns no template
createItineraryWithoutTemplate(state, reply) ==
  [finalResponse |-> IF reply.failed THEN JText(<<>>) ELSE reply.content,
   currentStep |-> "complete"]

createItinerary(state, reply) ==
  IF ~reply.failed
  THEN [finalResponse |-> reply.content, currentStep |-> "complete"]
  ELSE [finalResponse |-> FallbackResponse(state.travelDetails),
        currentStep |-> "complete"]

(***************************************************************************)
(* Inputs of a turn.                                                       *)
(***************************************************************************)
ConvIds == {"c1", "c2"}

\* req.body.message: missing, empty, not a string, or a sample message
RequestMessages ==
  {JUndefined, JText(<<>>), JNum(7)} \cup {JText(m) : m \in Messages}

FullDetails ==
  [fromLocation |-> JStr("New York"),
   toLocation |-> JStr("Tokyo"),
   departureDate |-> JStr("2025-07-01"),
   returnDate |-> NotSpecified,
   travelers |-> JNum(2),
   budget |-> JStr("4000"),
   preferences |-> JArr(<<"food">>),
   duration |-> JStr("5 days"),
   specialRequirements |-> NotSpecified]

DestinationOnlyDetails ==
  [fromLocation |-> NotSpecified,
   toLocation |-> JStr("Orlando"),
   departureDate |-> NotSpecified,
   returnDate |-> NotSpecified,
   travelers |-> JNum(1),
   budget |-> NotSpecified,
   preferences |-> JArr(<<>>),
   duration |-> NotSpecified,
   specialRequirements |-> JStr("family trip")]

NothingSpecifiedDetails ==
  [DestinationOnlyDetails EXCEPT !.toLocation = NotSpecified,
                                 !.specialRequirements = NotSpecified]

\* the model filled the destination with an empty string
EmptyDestinationDetails == [FullDetails EXCEPT !.toLocation = JStr("")]

\* both places are known, the date is not
UndatedDetails == [FullDetails EXCEPT !.departureDate = NotSpecified]

\* the model returned preferences as an object
PreferencesObjectDetails ==
  [DestinationOnlyDetails EXCEPT !.preferences = JObj(EmptyObject)]

\* the model left keys out
PartialDetails == [toLocation |-> JStr("Tokyo")]

\* the JSON values the extraction reply can spell
ExtractedValues ==
  {JObj(FullDetails), JObj(DestinationOnlyDetails), JObj(NothingSpecifiedDetails),
   JObj(EmptyDestinationDetails), JObj(UndatedDetails),
   JObj(PreferencesObjectDetails),
   JObj(PartialDetails), JObj(EmptyObject), JNum(42), JNull}

ExtractionReplies ==
  {LLMRejects, LLMContent([prose |-> TRUE, json |-> NoJson])}
    \cup {LLMContent([prose |-> p, json |-> SomeJson(v)]) :
            p \in BOOLEAN, v \in ExtractedValues}

ItineraryText == JText(<<"# Your itinerary", "Day 1: ...">>)

SynthesisReplies ==
  {SynthesisRejects, SynthesisContent(JText(<<>>)), SynthesisContent(ItineraryText)}

\* conversation.length > 40, conversation.slice(-40)
HistoryCap == 40

\* how many completed exchanges the store may already hold for "c1"
MaxPriorExchanges == 1

(***************************************************************************)
(* State.                                                                  *)
(***************************************************************************)
VARIABLES
  SERPAPI_KEY,    \* whether process.env.SERPAPI_API_KEY is set
  arrays,         \* the history arrays that exist; an array is named by its index
  conversations,  \* Map: conversation id -> the array stored under it (0: none)
  agentStates,    \* Map: conversation id -> the state object stored under it
  pc,             \* where the turn is
  req,            \* req.body of the turn
  conversation,   \* the handler's local `conversation`: an index of arrays
  state,          \* the channels of the run started by agent.invoke
  toolResults,    \* the local toolResults of gatherTravelData
  calls,          \* the adapter invocations of the turn, in order
  llmCalls,       \* the llm.invoke calls of the turn, in order
  lastCall,       \* the adapter invocation gatherTravelData settled last
  steps,          \* the values currentStep has taken in the run
  thrown,         \* the error agent.invoke rejected with
  res             \* the HTTP response

vars ==
  <<SERPAPI_KEY, arrays, conversations, agentStates, pc, req, conversation, state,
    toolResults, calls, llmCalls, lastCall, steps, thrown, res, extractions, turns>>

UserEntry(message) == [role |-> "user", content |-> message]
AssistantEntry(text) == [role |-> "assistant", content |-> text]

\* mutant: the run starts with the message as its response
InitialStateEchoing(message) ==
  [messages |-> <<UserEntry(message)>>,
   travelDetails |-> JObj(EmptyObject),
   toolResults |-> JObj(EmptyObject),
   currentStep |-> "analyzing",
   finalResponse |-> message]

\* the initialState object of the handler
InitialState(message) ==
  [messages |-> <<UserEntry(message)>>,
   travelDetails |-> JObj(EmptyObject),
   toolResults |-> JObj(EmptyObject),
   currentStep |-> "analyzing",
   finalResponse |-> JText(<<>>)]

RECURSIVE PriorHistory(_)
\* the history n completed turns leave behind
PriorHistory(n) ==
  IF n = 0 THEN <<>>
  ELSE PriorHistory(n - 1)
         \o <<UserEntry(JText(DestinationOnlyMessage)), AssistantEntry(ItineraryText)>>

NoCall ==
  [tool |-> "", behaviour |-> "",
   call |-> [raised |-> FALSE, text |-> [prose |-> FALSE, json |-> NoJson]]]

NoResponse == [status |-> 0, body |-> JUndefined]

\* the requests handled side by side
Turns == {"t1", "t2"}

IdleTurn ==
  [pc |-> "idle",
   req |-> [message |-> JUndefined, conversationId |-> "c1"],
   conversation |-> 0,
   during |-> {},
   res |-> NoResponse]

\* the exchanges "c1" has completed before the turn: none, a few, or as many
\* as fill the history to the cap without exceeding it
PriorExchanges == (0..MaxPriorExchanges) \cup {HistoryCap \div 2}

Init ==
  /\ SERPAPI_KEY \in BOOLEAN
  /\ \E n \in PriorExchanges :
       /\ arrays = IF n = 0 THEN <<>> ELSE <<PriorHistory(n)>>
       /\ conversations = [c \in ConvIds |-> IF c = "c1" /\ n > 0 THEN 1 ELSE 0]
       /\ agentStates =
            [c \in ConvIds |->
               IF c = "c1" /\ n > 0
               THEN JObj(InitialState(JText(DestinationOnlyMessage)))
               ELSE JUndefined]
  /\ pc = "idle"
  /\ req = [message |-> JUndefined, conversationId |-> "c1"]
  /\ conversation = 0
  /\ state = AgentStateDefault
  /\ toolResults = EmptyObject
  /\ calls = <<>>
  /\ llmCalls = <<>>
  /\ lastCall = NoCall
  /\ steps = <<>>
  /\ thrown = JUndefined
  /\ res = NoResponse
  /\ extractions = <<>>
  /\ turns = [t \in Turns |-> IdleTurn]

(***************************************************************************)
(* POST /api/chat, up to `await agent.invoke(initialState)`.               *)
(***************************************************************************)
\* mutant: only a missing message is rejected
MessageRejectedIfMissing(message) == message = JUndefined

\* if (!message)
MessageRejected(message) == ~Truthy(message)

\* message.substring(0, 100) throws a TypeError
SubstringThrows(message) == TypeOf(message) # "text"

InternalError(details) ==
  [status |-> 500,
   body |-> JObj([error |-> JStr("Sorry, I encountered an error while planning your trip. Please try again!"),
                  details |-> details])]

PostChat(message, cid) ==
  /\ pc = "idle"
  /\ req' = [message |-> message, conversationId |-> cid]
  /\ IF MessageRejected(message)
     THEN /\ res' = [status |-> 400,
                     body |-> JObj([error |-> JStr("Message is required")])]
          /\ pc' = "done"
          /\ UNCHANGED <<arrays, conversations, agentStates, conversation, state, steps>>
     ELSE IF SubstringThrows(message)
     THEN /\ res' = InternalError(JStr("message.substring is not a function"))
          /\ pc' = "done"
          /\ UNCHANGED <<arrays, conversations, agentStates, conversation, state, steps>>
     ELSE LET stored == conversations[cid]
              ref == IF stored # 0 THEN stored ELSE Len(arrays) + 1
              heap == IF stored # 0 THEN arrays ELSE Append(arrays, <<>>)
          IN /\ conversation' = ref
             /\ arrays' = [heap EXCEPT ![ref] = Append(@, UserEntry(message))]
             /\ agentStates' = [agentStates EXCEPT ![cid] = JObj(InitialState(message))]
             /\ state' = ApplyUpdate(AgentStateDefault, InitialState(message))
             /\ steps' = <<"analyzing">>
             /\ pc' = "analyze"
             /\ UNCHANGED <<conversations, res>>
  /\ UNCHANGED <<turns, extractions, SERPAPI_KEY, toolResults, calls, llmCalls, lastCall, thrown>>

(***************************************************************************)
(* The nodes of the workflow: analyze -> gather_data -> create_itinerary.  *)
(***************************************************************************)
Analyze(reply) ==
  /\ pc = "analyze"
  /\ LET r == analyzeUserRequest(state, reply)
     IN IF r.raised
        THEN /\ thrown' = JStr(r.error)
             /\ pc' = "rejected"
             /\ UNCHANGED <<state, steps>>
        ELSE /\ state' = ApplyUpdate(state, r.update)
             /\ steps' = Append(steps, r.update.currentStep)
             /\ pc' = "weather"
             /\ UNCHANGED thrown
  /\ llmCalls' = Append(llmCalls, [node |-> "analyze", failed |-> reply.failed])
  /\ UNCHANGED <<turns, extractions, SERPAPI_KEY, arrays, conversations, agentStates, req, conversation,
                 toolResults, calls, lastCall, res>>

\* one guarded invocation of gatherTravelData
CallTool(tool, k, reason, args, behaviour) ==
  LET call == Invoke(tool, args, SERPAPI_KEY, behaviour)
  IN /\ toolResults' = Settle(toolResults, k, reason, call)
     /\ calls' = Append(calls, [tool |-> tool, args |-> args,
                                failed |-> InvocationFails(call)])
     /\ lastCall' = [tool |-> tool, behaviour |-> behaviour, call |-> call]

GatherFrame ==
  UNCHANGED <<turns, extractions, SERPAPI_KEY, arrays, conversations, agentStates, req, conversation,
              state, llmCalls, steps, thrown, res>>

GatherWeather ==
  /\ pc = "weather"
  /\ IF DestinationKnown(state.travelDetails)
     THEN \E b \in AdapterBehaviours :
            CallTool("search_weather", "weather", "Weather data unavailable",
                     WeatherArgs(state.travelDetails), b)
     ELSE UNCHANGED <<toolResults, calls, lastCall>>
  /\ pc' = "flights"
  /\ GatherFrame

GatherFlights ==
  /\ pc = "flights"
  /\ IF FlightsApplicable(state.travelDetails)
     THEN \E b \in AdapterBehaviours :
            CallTool("search_flights", "flights", "Flight data unavailable",
                     FlightsArgs(state.travelDetails), b)
     ELSE UNCHANGED <<toolResults, calls, lastCall>>
  /\ pc' = "hotels"
  /\ GatherFrame

GatherHotels ==
  /\ pc = "hotels"
  /\ IF DestinationKnown(state.travelDetails)
     THEN \E b \in AdapterBehaviours :
            CallTool("search_hotels", "hotels", "Hotel data unavailable",
                     HotelsArgs(state.travelDetails), b)
     ELSE UNCHANGED <<toolResults, calls, lastCall>>
  /\ pc' = "attractions"
  /\ GatherFrame

GatherAttractions ==
  /\ pc = "attractions"
  /\ IF DestinationKnown(state.travelDetails)
     THEN \E b \in AdapterBehaviours :
            CallTool("search_places", "attractions", "Attractions data unavailable",
                     PlacesArgs(state.travelDetails), b)
     ELSE UNCHANGED <<toolResults, calls, lastCall>>
  /\ pc' = "restaurants"
  /\ GatherFrame

GatherRestaurants ==
  /\ pc = "restaurants"
  /\ IF DestinationKnown(state.travelDetails)
     THEN IF IncludesThrows(state.travelDetails)
          THEN /\ toolResults' =
                    Spread(toolResults,
                           "restaurants" :> ErrorMarker("Restaurant data unavailable"))
               /\ UNCHANGED <<calls, lastCall>>
          ELSE \E b \in AdapterBehaviours :
                 CallTool("search_restaurants", "restaurants",
                          "Restaurant data unavailable",
                          RestaurantsArgs(state.travelDetails), b)
     ELSE UNCHANGED <<toolResults, calls, lastCall>>
  /\ pc' = "return"
  /\ GatherFrame

\* mutant: the stage returns before the results are in
GatherReturnWithoutResults ==
  /\ pc = "return"
  /\ state' = ApplyUpdate(state, [currentStep |-> "creating_itinerary"])
  /\ steps' = Append(steps, "creating_itinerary")
  /\ toolResults' = EmptyObject
  /\ lastCall' = NoCall
  /\ pc' = "create_itinerary"
  /\ UNCHANGED <<turns, extractions, SERPAPI_KEY, arrays, conversations, agentStates, req, conversation,
                 calls, llmCalls, thrown, res>>

\* return { toolResults, currentStep: 'creating_itinerary' }
GatherReturn ==
  /\ pc = "return"
  /\ state' = ApplyUpdate(state, [toolResults |-> JObj(toolResults),
                                  currentStep |-> "creating_itinerary"])
  /\ steps' = Append(steps, "creating_itinerary")
  /\ toolResults' = EmptyObject
  /\ lastCall' = NoCall
  /\ pc' = "create_itinerary"
  /\ UNCHANGED <<turns, extractions, SERPAPI_KEY, arrays, conversations, agentStates, req, conversation,
                 calls, llmCalls, thrown, res>>

CreateItinerary(reply) ==
  /\ pc = "create_itinerary"
  /\ LET update == createItinerary(state, reply)
     IN /\ state' = ApplyUpdate(state, update)
        /\ steps' = Append(steps, update.currentStep)
  /\ llmCalls' = Append(llmCalls, [node |-> "create_itinerary", failed |-> reply.failed])
  /\ pc' = "resolved"
  /\ UNCHANGED <<turns, extractions, SERPAPI_KEY, arrays, conversations, agentStates, req, conversation,
                 toolResults, calls, lastCall, thrown, res>>

(***************************************************************************)
(* POST /api/chat, after `await agent.invoke(initialState)`.               *)
(***************************************************************************)
\* conversation.slice(-40)
LastEntries(history, n) ==
  IF Len(history) <= n THEN history
  ELSE SubSeq(history, Len(history) - n + 1, Len(history))

PostChatResume ==
  /\ pc = "resolved"
  /\ LET pushed == [arrays EXCEPT ![conversation] =
                      Append(@, AssistantEntry(state.finalResponse))]
         cid == req.conversationId
     IN IF Len(pushed[conversation]) > HistoryCap
        THEN /\ arrays' = Append(pushed, LastEntries(pushed[conversation], HistoryCap))
             /\ conversation' = Len(pushed) + 1
             /\ conversations' = [conversations EXCEPT ![cid] = Len(pushed) + 1]
        ELSE /\ arrays' = pushed
             /\ conversations' = [conversations EXCEPT ![cid] = conversation]
             /\ UNCHANGED conversation
  /\ res' = [status |-> 200,
             body |-> JObj([response |-> state.finalResponse,
                            conversationId |-> JStr(req.conversationId),
                            travelDetails |-> JObj(state.travelDetails),
                            toolsUsed |-> <<"keys", DOMAIN state.toolResults>>,
                            dataGathered |-> JObj(state.toolResults)])]
  /\ pc' = "done"
  /\ UNCHANGED <<turns, extractions, SERPAPI_KEY, agentStates, req, state, toolResults, calls, llmCalls,
                 lastCall, steps, thrown>>

PostChatCatch ==
  /\ pc = "rejected"
  /\ res' = InternalError(thrown)
  /\ pc' = "done"
  /\ UNCHANGED <<turns, extractions, SERPAPI_KEY, arrays, conversations, agentStates, req, conversation,
                 state, toolResults, calls, llmCalls, lastCall, steps, thrown>>

Next ==
  \/ \E m \in RequestMessages, c \in ConvIds : PostChat(m, c)
  \/ \E r \in ExtractionReplies : Analyze(r)
  \/ GatherWeather
  \/ GatherFlights
  \/ GatherHotels
  \/ GatherAttractions
  \/ GatherRestaurants
  \/ GatherReturn
  \/ \E r \in SynthesisReplies : CreateItinerary(r)
  \/ PostChatResume
  \/ PostChatCatch

Spec == Init /\ [][Next]_vars

(***************************************************************************)
(* extractBasicTravelInfo by itself: the message is drawn from messages    *)
(* made of a lead, a route, a tail without a comma and a part after a      *)
(* comma; the two sample messages are among them.                          *)
(***************************************************************************)
Leads == {<<"I", "want", "to", "go">>, <<"Family", "trip">>, <<"A", "romantic", "trip">>}

Routes ==
  {<<"from", "New", "York", "to", "Tokyo">>, <<"from", "Paris", "to", "Rome">>,
   <<"to", "Orlando">>}

Tails ==
  {<<>>, <<"for", "Disney", "World">>,
   <<"next", "month", "for", "5", "days", "with", "a", "$4000", "budget">>}

Extras ==
  {<<>>, <<",", "traveling", "with", "2", "kids", "in", "August">>,
   <<",", "4", "adults">>, <<",", "for", "2", "people">>,
   <<",", "for", "0", "people">>}

HeuristicMessages ==
  {lead \o route \o tail \o extra :
     lead \in Leads, route \in Routes, tail \in Tails, extra \in Extras}

ExtractInit ==
  /\ SERPAPI_KEY = FALSE
  /\ arrays = <<>>
  /\ conversations = [c \in ConvIds |-> 0]
  /\ agentStates = [c \in ConvIds |-> JUndefined]
  /\ pc = "extract"
  /\ \E m \in HeuristicMessages : req = [message |-> JText(m), conversationId |-> "c1"]
  /\ conversation = 0
  /\ state = AgentStateDefault
  /\ toolResults = EmptyObject
  /\ calls = <<>>
  /\ llmCalls = <<>>
  /\ lastCall = NoCall
  /\ steps = <<>>
  /\ thrown = JUndefined
  /\ res = NoResponse
  /\ extractions = <<>>
  /\ turns = [t \in Turns |-> IdleTurn]

\* how many calls of extractBasicTravelInfo follow one another
MaxExtractions == 3

\* basicInfo = extractBasicTravelInfo(message), held in state.travelDetails
ExtractCall(message) ==
  LET result == extractBasicTravelInfo(message)
  IN /\ state' = [state EXCEPT !.travelDetails = result]
     /\ extractions' = Append(extractions, [message |-> message, result |-> result])
     /\ pc' = "extracted"
     /\ UNCHANGED <<turns, SERPAPI_KEY, arrays, conversations, agentStates, conversation,
                    toolResults, calls, llmCalls, lastCall, steps, thrown, res>>

\* the first call, for the message drawn at the start
Extract ==
  /\ pc = "extract"
  /\ ExtractCall(req.message[2])
  /\ UNCHANGED req

\* a later call, for one of the sample messages
ExtractAgain(message) ==
  /\ pc = "extracted"
  /\ Len(extractions) < MaxExtractions
  /\ req' = [req EXCEPT !.message = JText(message)]
  /\ ExtractCall(message)

ExtractNext == Extract \/ \E m \in Messages : ExtractAgain(m)

ExtractSpec == ExtractInit /\ [][ExtractNext]_vars

(***************************************************************************)
(* gatherTravelData applied to the details extractBasicTravelInfo returned:*)
(* the update { travelDetails: fallbackDetails, currentStep:               *)
(* 'gathering_data' } followed by the gather stage.                        *)
(***************************************************************************)
HandOver ==
  /\ pc = "extracted"
  /\ Len(extractions) = 1
  /\ state' = ApplyUpdate(state, [travelDetails |-> JObj(extractions[1].result),
                                  currentStep |-> "gathering_data"])
  /\ steps' = Append(steps, "gathering_data")
  /\ pc' = "weather"
  /\ UNCHANGED <<turns, extractions, SERPAPI_KEY, arrays, conversations, agentStates, req,
                 conversation, toolResults, calls, llmCalls, lastCall, thrown, res>>

HeuristicRunNext ==
  \/ ExtractNext
  \/ HandOver
  \/ GatherWeather
  \/ GatherFlights
  \/ GatherHotels
  \/ GatherAttractions
  \/ GatherRestaurants
  \/ GatherReturn

HeuristicRunSpec == ExtractInit /\ [][HeuristicRunNext]_vars

(***************************************************************************)
(* Requests side by side.  The handler runs from its start to `await       *)
(* agent.invoke(initialState)` in one piece, and from there to its response*)
(* in one piece; the run of the agent touches neither map, so it is here   *)
(* only its outcome: it resolves with a finalResponse, or it rejects.      *)
(***************************************************************************)
\* finalState.finalResponse of a run that resolved
FinalResponses == {ItineraryText, JText(<<>>)}

\* POST /api/chat up to the await
TurnBegin(t, message, cid) ==
  /\ turns[t].pc = "idle"
  /\ LET request == [message |-> message, conversationId |-> cid]
     IN IF MessageRejected(message)
        THEN /\ turns' = [turns EXCEPT ![t] =
                            [pc |-> "done", req |-> request, conversation |-> 0,
                             during |-> {},
                             res |-> [status |-> 400,
                                      body |-> JObj([error |-> JStr("Message is required")])]]]
             /\ UNCHANGED <<arrays, agentStates>>
        ELSE IF SubstringThrows(message)
        THEN /\ turns' = [turns EXCEPT ![t] =
                            [pc |-> "done", req |-> request, conversation |-> 0,
                             during |-> {},
                             res |-> InternalError(JStr("message.substring is not a function"))]]
             /\ UNCHANGED <<arrays, agentStates>>
        ELSE LET stored == conversations[cid]
                 ref == IF stored # 0 THEN stored ELSE Len(arrays) + 1
                 heap == IF stored # 0 THEN arrays ELSE Append(arrays, <<>>)
             IN /\ arrays' = [heap EXCEPT ![ref] = Append(@, UserEntry(message))]
                /\ agentStates' = [agentStates EXCEPT ![cid] = JObj(InitialState(message))]
                /\ turns' = [turns EXCEPT ![t] =
                               [pc |-> "awaiting", req |-> request, conversation |-> ref,
                                during |-> {u \in Turns : /\ turns[u].pc = "awaiting"
                                                          /\ turns[u].req.conversationId = cid},
                                res |-> NoResponse]]
  /\ UNCHANGED <<conversations, extractions, SERPAPI_KEY, pc, req, conversation, state,
                 toolResults, calls, llmCalls, lastCall, steps, thrown, res>>

\* POST /api/chat after agent.invoke resolved
TurnResolve(t, finalResponse) ==
  /\ turns[t].pc = "awaiting"
  /\ LET ref == turns[t].conversation
         cid == turns[t].req.conversationId
         pushed == [arrays EXCEPT ![ref] = Append(@, AssistantEntry(finalResponse))]
         trims == Len(pushed[ref]) > HistoryCap
     IN /\ arrays' = IF trims
                     THEN Append(pushed, LastEntries(pushed[ref], HistoryCap))
                     ELSE pushed
        /\ conversations' = [conversations EXCEPT ![cid] =
                               IF trims THEN Len(pushed) + 1 ELSE ref]
        /\ turns' = [turns EXCEPT ![t] =
                       [pc |-> "done", req |-> @.req,
                        conversation |-> IF trims THEN Len(pushed) + 1 ELSE ref,
                        during |-> @.during,
                        res |-> [status |-> 200,
                                 body |-> JObj([response |-> finalResponse,
                                                conversationId |-> JStr(cid)])]]]
  /\ UNCHANGED <<agentStates, extractions, SERPAPI_KEY, pc, req, conversation, state,
                 toolResults, calls, llmCalls, lastCall, steps, thrown, res>>

\* POST /api/chat after agent.invoke rejected
TurnReject(t) ==
  /\ turns[t].pc = "awaiting"
  /\ turns' = [turns EXCEPT ![t] =
                 [pc |-> "done", req |-> @.req, conversation |-> @.conversation,
                  during |-> @.during,
                  res |-> InternalError(JStr("result is not defined"))]]
  /\ UNCHANGED <<arrays, conversations, agentStates, extractions, SERPAPI_KEY, pc, req,
                 conversation, state, toolResults, calls, llmCalls, lastCall, steps,
                 thrown, res>>

TurnsNext ==
  \/ \E t \in Turns, m \in RequestMessages, c \in ConvIds : TurnBegin(t, m, c)
  \/ \E t \in Turns, r \in FinalResponses : TurnResolve(t, r)
  \/ \E t \in Turns : TurnReject(t)

TurnsSpec == Init /\ [][TurnsNext]_vars

\* The steps the server takes by itself.  An adapter invocation always
\* settles: axios.get is called with timeout: 10000, so a provider that never
\* answers becomes the "timeout" outcome.  The handler's synchronous
\* continuations run once their promise has settled.
ServerSteps ==
  \/ GatherWeather
  \/ GatherFlights
  \/ GatherHotels
  \/ GatherAttractions
  \/ GatherRestaurants
  \/ GatherReturn
  \/ PostChatResume
  \/ PostChatCatch

\* The two llm.invoke calls settle when the provider answers: llm is built
\* with apiKey, model, temperature and maxTokens, and no timeout, so nothing
\* in the program makes Analyze or CreateItinerary happen.
FairSpec == Spec /\ WF_vars(ServerSteps)

(***************************************************************************)
(* The two read endpoints.                                                 *)
(***************************************************************************)
\* GET /api/conversation/:conversationId
GetConversation(cid) ==
  IF conversations[cid] = 0
  THEN [status |-> 404, conversation |-> <<>>]
  ELSE [status |-> 200, conversation |-> arrays[conversations[cid]]]

\* GET /api/agent-state/:conversationId
GetAgentState(cid) ==
  IF agentStates[cid] = JUndefined
  THEN [status |-> 404, state |-> JUndefined]
  ELSE [status |-> 200, state |-> agentStates[cid]]

(***************************************************************************)
(* Properties.                                                             *)
(***************************************************************************)
CapabilityKeys == {"weather", "flights", "hotels", "attractions", "restaurants"}
DestinationKeys == {"weather", "hotels", "attractions", "restaurants"}

ResultKey(tool) ==
  CASE tool = "search_weather" -> "weather"
    [] tool = "search_flights" -> "flights"
    [] tool = "search_hotels" -> "hotels"
    [] tool = "search_places" -> "attractions"
    [] tool = "search_restaurants" -> "restaurants"

Reason(k) ==
  CASE k = "weather" -> "Weather data unavailable"
    [] k = "flights" -> "Flight data unavailable"
    [] k = "hotels" -> "Hotel data unavailable"
    [] k = "attractions" -> "Attractions data unavailable"
    [] k = "restaurants" -> "Restaurant data unavailable"

IsPayload(v) == TypeOf(v) = "object" /\ "dataSource" \in DOMAIN v[2]

\* the analyze node has returned its update
AnalyzeReturned == state.currentStep # "analyzing"

\* the gather_data node has returned its update
GatherReturned == state.currentStep \in {"creating_itinerary", "complete"}

InvokedTools == {calls[i].tool : i \in 1..Len(calls)}

\* the capabilities whose guarded invocation ended in its catch
FailedKeys ==
  {ResultKey(calls[i].tool) : i \in {j \in 1..Len(calls) : calls[j].failed}}
    \cup (IF DestinationKnown(state.travelDetails) /\ IncludesThrows(state.travelDetails)
          THEN {"restaurants"} ELSE {})

\* C1: whatever llm.invoke does for the extraction (it rejects, it answers
\* with text that is no JSON, it answers with JSON), analyzeUserRequest does
\* not raise and returns {travelDetails, currentStep: 'gathering_data'}; when
\* the call or the parse failed, travelDetails is extractBasicTravelInfo of
\* the last message.
C1_DetailExtractorNeverRaises ==
  pc = "analyze" =>
    \A reply \in ExtractionReplies :
      LET out == analyzeUserRequest(state, reply)
          lastMessage == state.messages[Len(state.messages)]
      IN /\ ~out.raised
         /\ out.update.currentStep = "gathering_data"
         /\ (reply.failed \/ JSONParse(CleanContent(reply.content)).raised)
              => out.update.travelDetails
                   = JObj(extractBasicTravelInfo(lastMessage.content[2]))

\* C2: when all five capabilities are applicable and exactly one guarded
\* invocation fails, toolResults holds an error marker under the failing
\* capability's key, a parsed payload under each of the other four keys, and
\* every capability was attempted.
C2_IsolationUnderPartialFailure ==
  (/\ GatherReturned
   /\ DestinationKnown(state.travelDetails)
   /\ FlightsApplicable(state.travelDetails)
   /\ Cardinality(FailedKeys) = 1)
  => /\ DOMAIN state.toolResults = CapabilityKeys
     /\ \A k \in CapabilityKeys :
          IF k \in FailedKeys
          THEN state.toolResults[k] = ErrorMarker(Reason(k))
          ELSE IsPayload(state.toolResults[k])
     /\ \A t \in Tools :
          t \in InvokedTools
            \/ (t = "search_restaurants" /\ IncludesThrows(state.travelDetails))

\* C2 witness: the hotels invocation (the third of five) failed, the other
\* four returned payloads, the two after it included.
C2_Witness ==
  /\ GatherReturned
  /\ Len(calls) = 5
  /\ {i \in 1..5 : calls[i].failed} = {3}
  /\ state.toolResults["hotels"] = ErrorMarker("Hotel data unavailable")
  /\ \A k \in CapabilityKeys \ {"hotels"} : IsPayload(state.toolResults[k])

\* C3: once the analyze stage has returned, state.travelDetails holds each of
\* the nine keys with a defined value.
C3_SentinelCompleteness ==
  AnalyzeReturned =>
    \A k \in TravelDetailKeys :
      k \in DOMAIN state.travelDetails /\ state.travelDetails[k] # JUndefined

\* C4: whenever currentStep is 'complete', finalResponse is a non-empty string.
C4_NonEmptyTerminalResponse ==
  state.currentStep = "complete" =>
    TypeOf(state.finalResponse) = "text" /\ state.finalResponse[2] # <<>>

StepOrder == <<"analyzing", "gathering_data", "creating_itinerary", "complete">>

\* C5: the values currentStep takes in a run are analyzing, gathering_data,
\* creating_itinerary, complete in that order, and a run that has ended has
\* taken all four.
C5_MonotonicStepProgression ==
  /\ Len(steps) <= Len(StepOrder)
  /\ steps = SubSeq(StepOrder, 1, Len(steps))
  /\ (pc = "done" /\ steps # <<>>) => steps = StepOrder

\* C6: a turn with a non-empty message, in which every llm.invoke call failed
\* and no search credentials are configured, is answered with 200, with
\* currentStep 'complete', the templated finalResponse, and only
\* fallback-labelled payloads in toolResults.
C6_AllProvidersDown ==
  (/\ pc = "done"
   /\ TypeOf(req.message) = "text"
   /\ Truthy(req.message)
   /\ ~SERPAPI_KEY
   /\ \A i \in 1..Len(llmCalls) : llmCalls[i].failed
   /\ \A i \in 1..Len(calls) : ~calls[i].failed)
  => /\ res.status = 200
     /\ state.currentStep = "complete"
     /\ state.finalResponse = FallbackResponse(state.travelDetails)
     /\ state.finalResponse[2] # <<>>
     /\ \A k \in DOMAIN state.toolResults :
          /\ IsPayload(state.toolResults[k])
          /\ state.toolResults[k][2]["dataSource"] = FALLBACK

\* C7: a request whose message is missing or empty is answered in the same
\* step with 400 'Message is required'; no stage runs, no model or provider
\* call is made, and the two maps (and the arrays they hold) stay as they are.
C7_EmptyMessageRejected ==
  [][(pc = "idle" /\ req'.message \in {JUndefined, JText(<<>>)})
       => /\ pc' = "done"
          /\ res' = [status |-> 400,
                     body |-> JObj([error |-> JStr("Message is required")])]
          /\ steps' = <<>>
          /\ calls' = <<>>
          /\ llmCalls' = <<>>
          /\ UNCHANGED <<conversations, arrays, agentStates>>]_vars

\* C7 witness: an empty message was answered with 400 while the store holds
\* an earlier conversation.
C7_Witness ==
  /\ pc = "done"
  /\ req.message = JText(<<>>)
  /\ res.status = 400
  /\ conversations["c1"] # 0
  /\ agentStates["c1"] # JUndefined

\* C8 as claimed: after gatherTravelData returned, each destination-gated key
\* is in toolResults if and only if toLocation differs from "not specified".
C8_DestinationGatedAsClaimed ==
  GatherReturned =>
    \A k \in DestinationKeys :
      (k \in DOMAIN state.toolResults)
        <=> (Get(state.travelDetails, "toLocation") # NotSpecified)

\* C8 as amended: after gatherTravelData returned, each destination-gated key
\* is in toolResults if and only if toLocation is truthy (not missing, null
\* or empty) and differs from "not specified".
C8_DestinationGated ==
  GatherReturned =>
    \A k \in DestinationKeys :
      (k \in DOMAIN state.toolResults)
        <=> (/\ Truthy(Get(state.travelDetails, "toLocation"))
             /\ Get(state.travelDetails, "toLocation") # NotSpecified)

\* C8 witness: all nine keys are there, toLocation is the empty string, and
\* none of the four keys is in toolResults.
C8_Witness ==
  /\ GatherReturned
  /\ DOMAIN state.travelDetails = TravelDetailKeys
  /\ state.travelDetails["toLocation"] = JStr("")
  /\ DOMAIN state.toolResults \cap DestinationKeys = {}

C10_AdaptersNeverRaise ==
  lastCall.behaviour \in HttpOutcomes =>
    LET parsed == JSONParse(lastCall.call.text)
        degraded ==
          \/ ~SERPAPI_KEY
          \/ lastCall.behaviour \in {"request_error", "timeout", "malformed"}
          \/ lastCall.behaviour = "incomplete" /\ lastCall.tool # "search_places"
    IN /\ ~lastCall.call.raised
       /\ ~parsed.raised
       /\ TypeOf(parsed.value) = "object"
       /\ Get(parsed.value[2], "dataSource") = IF degraded THEN FALLBACK ELSE SERP

\* C10 witness: with a key configured, the weather request timed out and the
\* adapter returned the fallback payload.
C10_Witness ==
  /\ SERPAPI_KEY
  /\ lastCall.tool = "search_weather"
  /\ lastCall.behaviour = "timeout"
  /\ ~lastCall.call.raised
  /\ JSONParse(lastCall.call.text).value[2]["dataSource"] = FALLBACK

\* the last llm.invoke of the turn was the one of createItinerary and failed
SynthesisFailed ==
  /\ llmCalls # <<>>
  /\ llmCalls[Len(llmCalls)].node = "create_itinerary"
  /\ llmCalls[Len(llmCalls)].failed

\* C11: when the llm.invoke of createItinerary fails, createItinerary does not
\* raise and calls the model no further; it returns currentStep 'complete'
\* and the templated, non-empty finalResponse, whatever travelDetails and
\* toolResults the earlier stages left.
C11_SynthesizerFallback ==
  SynthesisFailed =>
    /\ pc \in {"resolved", "done"}
    /\ thrown = JUndefined
    /\ state.currentStep = "complete"
    /\ state.finalResponse = FallbackResponse(state.travelDetails)
    /\ TypeOf(state.finalResponse) = "text"
    /\ state.finalResponse[2] # <<>>
    /\ Len(llmCalls) = 2

\* C11 witness: the synthesis call failed after a run that left keys of
\* travelDetails missing and an error marker in toolResults.
C11_Witness ==
  /\ SynthesisFailed
  /\ pc = "resolved"
  /\ state.travelDetails = PartialDetails
  /\ "weather" \in DOMAIN state.toolResults
  /\ state.toolResults["weather"] = ErrorMarker("Weather data unavailable")
  /\ state.finalResponse[2][1] = "# Travel Planning Assistant"

\* C12: the priceRange gatherTravelData passes to the restaurants adapter is
\* 'luxury' when the budget parses to an amount above 2000, and 'mid-range'
\* in every other case (an amount of 2000 or less, "not specified", a missing
\* budget, a budget that parses to no number).
C12_BudgetPriceTier ==
  \A i \in 1..Len(calls) :
    calls[i].tool = "search_restaurants" =>
      calls[i].args.priceRange =
        IF BudgetNumber(Get(state.travelDetails, "budget")) > 2000
        THEN JStr("luxury") ELSE JStr("mid-range")

\* the turn ended on the internal-failure path after agent.invoke rejected
TurnFailed == pc = "done" /\ thrown # JUndefined /\ res.status = 500

\* what the two read endpoints answer for cid before any turn, after n exchanges
ConversationBefore(cid, n) ==
  IF cid = "c1" /\ n > 0
  THEN [status |-> 200, conversation |-> PriorHistory(n)]
  ELSE [status |-> 404, conversation |-> <<>>]

AgentStateBefore(cid, n) ==
  IF cid = "c1" /\ n > 0
  THEN [status |-> 200, state |-> JObj(InitialState(JText(DestinationOnlyMessage)))]
  ELSE [status |-> 404, state |-> JUndefined]

\* C13: after a turn that ended on the internal-failure path, the stored
\* conversation of its id is what it was before the turn (the user message of
\* the failed turn is not visible) and agentStates holds no entry the turn
\* wrote.
C13_FailedTurnPublishesNothing ==
  TurnFailed =>
    \E n \in PriorExchanges :
      /\ GetConversation(req.conversationId) = ConversationBefore(req.conversationId, n)
      /\ GetAgentState(req.conversationId) = AgentStateBefore(req.conversationId, n)
      /\ \A c \in ConvIds \ {req.conversationId} :
           /\ GetConversation(c) = ConversationBefore(c, n)
           /\ GetAgentState(c) = AgentStateBefore(c, n)

\* the turn was answered with the success response
TurnSucceeded == pc = "done" /\ res.status = 200

\* C14: after a turn completed successfully for conversation id c, the state
\* GET /api/agent-state/c returns has currentStep 'complete', the
\* travelDetails and toolResults of the run, and the finalResponse that was
\* returned to the caller.
C14_FinalStatePersisted ==
  TurnSucceeded =>
    LET got == GetAgentState(req.conversationId)
    IN /\ got.status = 200
       /\ TypeOf(got.state) = "object"
       /\ got.state[2].currentStep = "complete"
       /\ got.state[2].travelDetails = JObj(state.travelDetails)
       /\ got.state[2].toolResults = JObj(state.toolResults)
       /\ got.state[2].finalResponse = res.body[2].response

\* C15: in every state of the server, a turn in flight or not, the history
\* stored under any conversation id has at most 40 entries.
C15_HistoryCap ==
  \A c \in ConvIds : Len(GetConversation(c).conversation) <= HistoryCap

\* the provider call of the invocation settled last failed: no credentials,
\* an HTTP error or a timeout
ProviderFailed ==
  /\ lastCall.tool \in Tools
  /\ lastCall.behaviour \in HttpOutcomes
  /\ ~SERPAPI_KEY \/ lastCall.behaviour \in {"request_error", "timeout"}

\* C16: when the provider call of an applicable capability fails, the
\* toolResults gatherTravelData goes on to return hold an error marker
\* {error: reason} under that capability's key.
C16_ProviderFailureMarked ==
  ProviderFailed =>
    /\ ResultKey(lastCall.tool) \in DOMAIN toolResults
    /\ toolResults[ResultKey(lastCall.tool)] = ErrorMarker(Reason(ResultKey(lastCall.tool)))

\* C17: a request whose message is present but is no string is answered like
\* a missing message, with 400 'Message is required', and the pipeline never
\* starts.
C17_MalformedMessageRejected ==
  (pc = "done" /\ TypeOf(req.message) \notin {"undefined", "text"}) =>
    /\ res = [status |-> 400, body |-> JObj([error |-> JStr("Message is required")])]
    /\ steps = <<>>
    /\ llmCalls = <<>>
    /\ calls = <<>>

\* C18: every turn that passed input validation eventually answers its
\* caller, every suspension point of the turn being bounded by a timeout.
C18_EveryTurnTerminates == (pc = "analyze") ~> (pc = "done")

\* the place named by the last word of a route, and the words between "from"
\* and "to"
PlaceTo(route) == JStr(route[Len(route)])
PlaceFrom(route) == JStr(Join(SubSeq(route, 2, Len(route) - 2)))

BudgetTail == <<"next", "month", "for", "5", "days", "with", "a", "$4000", "budget">>

\* C19: for a message '... from A to B <words without a comma> ...', such as
\* the happy-path sample, extractBasicTravelInfo returns fromLocation A and
\* toLocation B exactly, with budget "4000" and duration "5 days" when the
\* message names them.
C19_HeuristicHappyPath ==
  pc = "extracted" =>
    \A lead \in Leads, route \in Routes, tail \in Tails, extra \in Extras :
      (req.message = JText(lead \o route \o tail \o extra) /\ route[1] = "from") =>
        /\ state.travelDetails.fromLocation = PlaceFrom(route)
        /\ state.travelDetails.toLocation = PlaceTo(route)
        /\ tail = BudgetTail =>
             /\ state.travelDetails.budget = JStr("4000")
             /\ state.travelDetails.duration = JStr("5 days")

\* C20: for a message with no 'from' phrase and a destination phrase
\* 'trip to D <words>, ...', such as the destination-only sample,
\* extractBasicTravelInfo returns toLocation D exactly, fromLocation "not
\* specified", specialRequirements 'family trip' for a family trip, and
\* travelers 1 when only kids are counted.
C20_HeuristicDestinationOnly ==
  pc = "extracted" =>
    \A lead \in Leads, route \in Routes, tail \in Tails, extra \in Extras :
      (/\ req.message = JText(lead \o route \o tail \o extra)
       /\ route[1] = "to"
       /\ lead[Len(lead)] = "trip") =>
        /\ state.travelDetails.toLocation = PlaceTo(route)
        /\ state.travelDetails.fromLocation = NotSpecified
        /\ lead[1] = "Family" => state.travelDetails.specialRequirements = JStr("family trip")
        /\ (extra = <<>> \/ extra[2] = "traveling") => state.travelDetails.travelers = JNum(1)

\* C21: every travelDetails the detail extractor produces, by
\* extractBasicTravelInfo for any message or from the JSON of the model, has
\* a number travelers >= 1.
C21_TravelersPositive ==
  (pc = "extracted" \/ AnalyzeReturned) =>
    /\ TypeOf(Get(state.travelDetails, "travelers")) = "number"
    /\ Get(state.travelDetails, "travelers")[2] >= 1

C23_ResponseEmptyUntilSynthesis ==
  (steps # <<>> /\ state.currentStep \in {"analyzing", "gathering_data", "creating_itinerary"})
    => state.finalResponse = JText(<<>>)

\* C23 witness: the gather stage has returned payloads and the response is
\* still empty.
C23_Witness ==
  /\ pc = "create_itinerary"
  /\ state.currentStep = "creating_itinerary"
  /\ DOMAIN state.toolResults = CapabilityKeys
  /\ state.finalResponse = JText(<<>>)

GatherStages == {"weather", "flights", "hotels", "attractions", "restaurants", "return"}

\* C24: in a run, the gather and the synthesis stage leave state.travelDetails
\* as the analyze stage set it, the synthesis stage leaves state.toolResults
\* as the gather stage set it, and state.messages holds the user message of
\* the request, and nothing else, from start to end.
C24_StageFrame ==
  [][/\ pc \in GatherStages \cup {"create_itinerary"}
          => state'.travelDetails = state.travelDetails
     /\ pc = "create_itinerary" => state'.toolResults = state.toolResults
     /\ steps' # <<>> => state'.messages = <<UserEntry(req'.message)>>]_vars

\* C24 witness: the run is complete and holds the travel details of the
\* analysis, the results of the gathering and the one message.
C24_Witness ==
  /\ pc = "resolved"
  /\ state.currentStep = "complete"
  /\ state.travelDetails = FullDetails
  /\ DOMAIN state.toolResults = CapabilityKeys
  /\ state.messages = <<UserEntry(req.message)>>
  /\ state.finalResponse = ItineraryText

\* the llm.invoke of createItinerary has been issued
SynthesisStarted ==
  \E i \in 1..Len(llmCalls) : llmCalls[i].node = "create_itinerary"

\* C25: no adapter call starts before analyzeUserRequest has returned its
\* travelDetails, and the llm.invoke of createItinerary starts only after
\* every adapter call of gatherTravelData has settled into toolResults (as a
\* payload or as an error marker); none is issued after it.
C25_StageOrdering ==
  /\ [](calls # <<>> =>
          /\ AnalyzeReturned
          /\ llmCalls # <<>>
          /\ llmCalls[1].node = "analyze")
  /\ [](SynthesisStarted =>
          \A i \in 1..Len(calls) :
            /\ ResultKey(calls[i].tool) \in DOMAIN state.toolResults
            /\ \/ IsPayload(state.toolResults[ResultKey(calls[i].tool)])
               \/ state.toolResults[ResultKey(calls[i].tool)]
                    = ErrorMarker(Reason(ResultKey(calls[i].tool))))
  /\ [][(SynthesisStarted \/ SynthesisStarted') => calls' = calls]_vars

\* C25 witness: the synthesis call was issued after five settled adapter
\* calls, one of which had failed.
C25_Witness ==
  /\ SynthesisStarted
  /\ Len(calls) = 5
  /\ Len(llmCalls) = 2
  /\ calls[5].failed
  /\ state.toolResults["restaurants"] = ErrorMarker("Restaurant data unavailable")
  /\ IsPayload(state.toolResults["weather"])

Contains(history, entry) == \E i \in 1..Len(history) : history[i] = entry

\* turn t was answered with the success response
Succeeded(t) == turns[t].pc = "done" /\ turns[t].res.status = 200

\* C26: when two turns for the same conversation id overlap (the second
\* starts while the first awaits the agent) and both complete successfully,
\* the stored history holds the user message and the assistant response of
\* both.
C26_NoLostUpdate ==
  \A t \in Turns, u \in Turns :
    (/\ u \in turns[t].during
     /\ Succeeded(t)
     /\ Succeeded(u))
    => LET history == GetConversation(turns[t].req.conversationId).conversation
       IN \A v \in {t, u} :
            /\ Contains(history, UserEntry(turns[v].req.message))
            /\ Contains(history, AssistantEntry(turns[v].res.body[2].response))

\* no turn for cid awaits the agent
Quiet(cid) ==
  \A t \in Turns : ~(turns[t].pc = "awaiting" /\ turns[t].req.conversationId = cid)

\* C27: whenever no turn is in flight for a conversation id, the history
\* stored under it alternates user and assistant entries, starting with a
\* user entry and ending with an assistant entry, and the user message of
\* each answered turn is directly followed by the response produced for it.
C27_WholeExchanges ==
  \A cid \in ConvIds :
    Quiet(cid) =>
      LET history == GetConversation(cid).conversation
      IN /\ Len(history) % 2 = 0
         /\ \A i \in 1..Len(history) :
              history[i].role = IF i % 2 = 1 THEN "user" ELSE "assistant"
         /\ \A t \in Turns :
              (Succeeded(t) /\ turns[t].req.conversationId = cid) =>
                \E i \in 1..(Len(history) - 1) :
                  /\ history[i] = UserEntry(turns[t].req.message)
                  /\ history[i + 1] = AssistantEntry(turns[t].res.body[2].response)

\* C28: whenever the flights adapter is invoked in a turn, the weather,
\* hotels, attractions and restaurants adapters are invoked in it too, a
\* final toolResults with the flights key has those four keys, and the
\* flights adapter is called with a defined, non-empty place of departure and
\* destination.
C28_FlightsImplyDestination ==
  GatherReturned =>
    /\ "search_flights" \in InvokedTools =>
         /\ {"search_weather", "search_hotels", "search_places"} \subseteq InvokedTools
         /\ \/ "search_restaurants" \in InvokedTools
            \/ IncludesThrows(state.travelDetails)
    /\ "flights" \in DOMAIN state.toolResults =>
         DestinationKeys \subseteq DOMAIN state.toolResults
    /\ \A i \in 1..Len(calls) :
         calls[i].tool = "search_flights" =>
           /\ TypeOf(calls[i].args.fromLocation) = "string"
           /\ Truthy(calls[i].args.fromLocation)
           /\ TypeOf(calls[i].args.toLocation) = "string"
           /\ Truthy(calls[i].args.toLocation)

C30_OneTravelerCount ==
  \A i, j \in 1..Len(calls) :
    (calls[i].tool = "search_flights" /\ calls[j].tool = "search_hotels")
      => calls[i].args.adults = calls[j].args.adults
====
